---------------------------- MODULE Spec2Model ----------------------------
(***************************************************************************)
(* Model of the Figma -> documentation pipeline.                           *)
(*                                                                         *)
(*   Spec        the webhook receiver (src/unnamed/part_000): one request  *)
(*               at a time, handler() up to its await, the forge's answer  *)
(*               to the dispatch POST, the body text of an answer that is  *)
(*               not ok, then handler() resumed.                           *)
(*   SpecVerify  verifyFigmaWebhook as a pure function over drawn inputs.  *)
(*   SpecSync    the sync script (pull-figma-and-update-docs.mjs): runs of *)
(*               main(), one step per file written (token document, each   *)
(*               image, each page), the answers of the Figma API and one   *)
(*               failing file operation drawn per run.                     *)
(*   SpecUpdater updateDocumentation called repeatedly with the same       *)
(*               arguments over a drawn working tree, one step per page.   *)
(*   SpecTransform transformVariablesToTokens as a pure function over      *)
(*               drawn variable collections and variables.                 *)
(*                                                                         *)
(* An .mdx page is a sequence of blocks (headings, notes, images, ...); a  *)
(* timestamp is the value of clock when it was taken, and every reading of *)
(* the clock advances it.                                                  *)
(*                                                                         *)
(* JavaScript values are records with a tag t.  A JavaScript string is a   *)
(* sequence of chunks; the text of a JSON document is its sequence of      *)
(* tokens: punctuation, whitespace, and string literals (a token that is   *)
(* not punctuation is a string literal, quotes implied).                   *)
(***************************************************************************)
EXTENDS Integers, Sequences, FiniteSets, TLC

VARIABLES
  env,        \* process.env: FIGMA_WEBHOOK_SECRET, GITHUB_TOKEN, GITHUB_REPOSITORY
  req,        \* the request being handled: method, raw body, x-figma-signature
  pc,         \* "idle" (no request yet) | "awaitFetch" (triggerGitHubAction
              \* waits for fetch) | "awaitText" (it waits for the body text
              \* of an answer that is not ok) | "awaitTrigger" (it has
              \* settled, handler waits at line 38) | "done" (replied)
  awaited,    \* how the promise awaited at line 38 settled
  res,        \* the reply sent for req (sent = FALSE: none yet)
  outbound,   \* the dispatch POSTs issued for req, in order
  answers,    \* the forge's answers to the dispatch POSTs of req, in order
  log,        \* console output for req, in order
  bodyRead,   \* req.body was evaluated for req
  sigChecked, \* verifyFigmaWebhook was called for req
  vIn,        \* SpecVerify: the drawn (payload, signature, secret)
  vOut,       \* SpecVerify: the result of the call (called = FALSE before it)
  files,      \* the working tree: token document, fragments, pages, images
  clock,      \* the time new Date() returns
  senv,       \* process.env of the sync script
  spc,        \* main(): "idle" | "tokens" | "shots" | "download" (in the loop
              \* of fetchScreenshots) | "docs" | "updating" (in
              \* updateDocumentation) | "exited"
  exitCode,   \* exit code of the sync process (-1 while it runs)
  tokensRet,  \* what fetchDesignTokens returned
  shotsRet,   \* what fetchScreenshots returned
  runs,       \* the number of sync runs started
  startFiles, \* the working tree as the current run found it
  runInfo,    \* what happened in the current run
  dl,         \* fetchScreenshots: the entries of images still to be handled
              \* and downloadedImages
  upc,        \* updateDocumentation: "idle" (not running) | "intro" | "colors"
              \* | "spacing" | "typography" | "alerts" | "forms" | "cards"
              \* (the file it is about to rewrite) | "done" (about to return)
  uTokens,    \* the token document passed to updateDocumentation
  uShots,     \* the screenshot records passed to it
  uCalls,     \* SpecUpdater: the number of calls that have returned
  uPrev,      \* SpecUpdater: the working tree before the latest call
  tIn,        \* SpecTransform: the figmaData passed to transformVariablesToTokens
  tOut,       \* SpecTransform: what it returned (called = FALSE before the call)
  lastFetch   \* history: the token document of the latest successful variables
              \* fetch (fetched) and of the latest one written to disk (written)

whVars == <<env, req, pc, awaited, res, outbound, answers, log, bodyRead, sigChecked>>
vfVars == <<vIn, vOut>>
fsVars == <<files, clock>>
syVars == <<senv, spc, exitCode, tokensRet, shotsRet, runs, startFiles, runInfo, dl>>
upVars == <<upc, uTokens, uShots, uCalls, uPrev>>
trVars == <<tIn, tOut>>
ghVars == <<lastFetch>>
vars == <<whVars, vfVars, fsVars, syVars, upVars, trVars, ghVars>>

---------------------------------------------------------------------------
(* JavaScript values *)

Undefined == [t |-> "undefined"]
Null == [t |-> "null"]
Str(s) == [t |-> "string", s |-> s]
Obj(members) == [t |-> "object", members |-> members]
\* a number, held as its decimal digits
Num(digits) == [t |-> "number", digits |-> digits]
SyntaxError == [t |-> "SyntaxError"]

\* !v in JavaScript for the values that occur: undefined, null and "" are falsy
Falsy(v) == v.t \in {"undefined", "null"} \/ (v.t = "string" /\ v.s = <<>>)

\* a property read, event.key
HasKey(members, k) == \E i \in 1..Len(members) : members[i][1] = k

KeyIndex(members, k) == CHOOSE i \in 1..Len(members) : members[i][1] = k

PropThrows(v) == v.t \in {"undefined", "null"}

Prop(v, k) ==
  IF v.t = "object" /\ HasKey(v.members, k)
  THEN v.members[KeyIndex(v.members, k)][2]
  ELSE Undefined

---------------------------------------------------------------------------
(* JSON text: parsing (the platform's body parser behind req.body) and    *)
(* JSON.stringify                                                          *)

Punct == {"{", "}", ":", ",", " ", "null"}

IsLit(tok) == tok \notin Punct

RECURSIVE StripWs(_)
StripWs(toks) ==
  IF toks = <<>> THEN <<>>
  ELSE IF Head(toks) = " " THEN StripWs(Tail(toks))
  ELSE <<Head(toks)>> \o StripWs(Tail(toks))

ParseValue(tok) == IF tok = "null" THEN Null ELSE Str(<<tok>>)

IsValueTok(tok) == tok = "null" \/ IsLit(tok)

\* obj[k] = v as JSON.parse does it: a repeated key keeps its first position
SetMember(members, k, v) ==
  IF HasKey(members, k)
  THEN [members EXCEPT ![KeyIndex(members, k)] = <<k, v>>]
  ELSE Append(members, <<k, v>>)

\* members of an object, whitespace already stripped: lit ":" value ("," ...)*
RECURSIVE ParseMembers(_, _)
ParseMembers(toks, acc) ==
  IF Len(toks) < 3 \/ ~IsLit(toks[1]) \/ toks[2] # ":" \/ ~IsValueTok(toks[3])
  THEN [ok |-> FALSE, members |-> <<>>]
  ELSE LET acc2 == SetMember(acc, toks[1], ParseValue(toks[3]))
       IN IF Len(toks) = 3 THEN [ok |-> TRUE, members |-> acc2]
          ELSE IF toks[4] # "," THEN [ok |-> FALSE, members |-> <<>>]
          ELSE ParseMembers(SubSeq(toks, 5, Len(toks)), acc2)

JSONparse(text) ==
  LET toks == StripWs(text)
      n == Len(toks)
  IN IF n = 1 /\ IsValueTok(toks[1]) THEN ParseValue(toks[1])
     ELSE IF n >= 2 /\ toks[1] = "{" /\ toks[n] = "}"
     THEN IF n = 2 THEN Obj(<<>>)
          ELSE LET r == ParseMembers(SubSeq(toks, 2, n - 1), <<>>)
               IN IF r.ok THEN Obj(r.members) ELSE SyntaxError
     ELSE SyntaxError

\* req.body: undefined when the request carries no body, else the parsed
\* JSON (SyntaxError: evaluating req.body throws)
RequestBody(raw) == IF raw = <<>> THEN Undefined ELSE JSONparse(raw)

\* JSON.stringify: compact text, members in insertion order, members whose
\* value is undefined left out; undefined for undefined
RECURSIVE StringifyText(_)
RECURSIVE StringifyMembers(_, _)
StringifyMembers(members, first) ==
  IF members = <<>> THEN <<>>
  ELSE LET m == Head(members)
       IN IF m[2].t = "undefined" THEN StringifyMembers(Tail(members), first)
          ELSE (IF first THEN <<>> ELSE <<",">>)
               \o <<m[1], ":">> \o StringifyText(m[2])
               \o StringifyMembers(Tail(members), FALSE)

StringifyText(v) ==
  CASE v.t = "null" -> <<"null">>
    [] v.t = "string" -> v.s
    [] v.t = "object" -> <<"{">> \o StringifyMembers(v.members, TRUE) \o <<"}">>

JSONstringify(v) == IF v.t = "undefined" THEN Undefined ELSE Str(StringifyText(v))

---------------------------------------------------------------------------
(* crypto.createHmac: the digest is the term (algorithm, encoding, key,    *)
(* message); two digests are equal exactly when all four agree             *)

createHmac(alg, key) == [alg |-> alg, key |-> key, data |-> <<>>]

\* hmac.update(payload) throws a TypeError unless payload is a string
UpdateThrows(payload) == payload.t # "string"

HmacUpdate(h, payload) == [h EXCEPT !.data = @ \o payload.s]

HmacDigest(h, enc) ==
  [t |-> "hexdigest", alg |-> h.alg, enc |-> enc, key |-> h.key, msg |-> h.data]

\* mutant: the key is dropped, every digest is taken under the empty key
verifyFigmaWebhookNoKey(payload, signature, secret) ==
  signature = HmacDigest(HmacUpdate(createHmac("sha256", <<>>), payload), "hex")

verifyFigmaWebhook(payload, signature, secret) ==
  LET hmac == createHmac("sha256", secret.s)
      expectedSignature == HmacDigest(HmacUpdate(hmac, payload), "hex")
  IN signature = expectedSignature

---------------------------------------------------------------------------
(* The webhook receiver *)

NoReply == [sent |-> FALSE]

\* res.status(status).json(body)
Reply(status, body) == [sent |-> TRUE, status |-> status, body |-> body]

Error(name, message) == [name |-> name, message |-> message]

LogLine(level, text, arg) == [level |-> level, text |-> text, arg |-> arg]

\* the promise of triggerGitHubAction: not created, pending, or settled
NotAwaiting == [state |-> "none"]
Pending == [state |-> "pending"]
Fulfilled == [state |-> "fulfilled"]
Rejected(error) == [state |-> "rejected", error |-> error]

Outcome(p, r, out, lg, br, sc) ==
  [pc |-> p, awaited |-> NotAwaiting, res |-> r, outbound |-> out, log |-> lg,
   bodyRead |-> br, sigChecked |-> sc]

\* the catch block of handler: log the error, reply with the fixed message
\* mutant: the reply carries the error's own message
CatchReplyLeaky(error) == Reply(500, [error |-> error.message])

CatchReply(error) == Reply(500, [error |-> <<"Internal server error">>])

Catch(error, lg, br, sc) ==
  Outcome("done", CatchReply(error), <<>>,
          Append(lg, LogLine("error", <<"Webhook processing error:">>, error)),
          br, sc)

\* githubRepo.split('/'): the segments between the "/" chunks
RECURSIVE Split(_, _)
Split(s, cur) ==
  IF s = <<>> THEN <<cur>>
  ELSE IF Head(s) = "/" THEN <<cur>> \o Split(Tail(s), <<>>)
  ELSE Split(Tail(s), Append(cur, Head(s)))

\* `${v}` in a template literal
Template(v) ==
  CASE v.t = "string" -> v.s
    [] v.t = "number" -> v.digits
    [] v.t = "object" -> <<"[object Object]">>
    [] OTHER -> <<v.t>>

\* `${x}` for a destructured segment that may be missing
Interpolate(segs, i) == IF i <= Len(segs) THEN segs[i] ELSE <<"undefined">>

\* mutant: only the owner/repo identifier is required
GitHubConfigMissingRepoOnly(e) == Falsy(e.GITHUB_REPOSITORY)

GitHubConfigMissing(e) == Falsy(e.GITHUB_TOKEN) \/ Falsy(e.GITHUB_REPOSITORY)

\* the fetch() call of triggerGitHubAction
DispatchRequest(e, figmaEvent, now) ==
  LET segs == Split(e.GITHUB_REPOSITORY.s, <<>>)
      dispatchPayload ==
        Obj(<< <<"event_type", Str(<<"figma-update">>)>>,
               <<"client_payload",
                 Obj(<< <<"event_type", Prop(figmaEvent, "event_type")>>,
                        <<"file_name", Prop(figmaEvent, "file_name")>>,
                        <<"file_key", Prop(figmaEvent, "file_key")>>,
                        <<"timestamp", Str(<<now>>)>>,
                        <<"triggered_by", Prop(figmaEvent, "triggered_by")>> >>)>> >>)
  IN [url |-> <<"https://api.github.com/repos/">> \o Interpolate(segs, 1)
                \o <<"/">> \o Interpolate(segs, 2) \o <<"/dispatches">>,
      method |-> "POST",
      authorization |-> <<"token ">> \o Template(e.GITHUB_TOKEN),
      body |-> JSONstringify(dispatchPayload)]

\* await triggerGitHubAction(event), up to the point where handler is
\* suspended: on missing configuration the promise is rejected at once (the
\* catch of handler runs when handler resumes), else the dispatch POST is
\* issued and the promise is pending
triggerGitHubAction(e, figmaEvent, now, lg, sc) ==
  IF GitHubConfigMissing(e)
  THEN [Outcome("awaitTrigger", NoReply, <<>>, lg, TRUE, sc) EXCEPT
          !.awaited = Rejected(Error("Error", <<"Missing GitHub configuration">>))]
  ELSE [Outcome("awaitFetch", NoReply, <<DispatchRequest(e, figmaEvent, now)>>,
                lg, TRUE, sc) EXCEPT !.awaited = Pending]

\* mutant: every event that names a type is forwarded
IsFileUpdateAnyType(event) == Prop(event, "event_type").t = "string"

IsFileUpdate(event) == Prop(event, "event_type") = Str(<<"FILE_UPDATE">>)

\* handler lines 33-48: the event filter
FilterEvent(e, event, now, sc) ==
  LET lg == <<LogLine("log", <<"Received Figma webhook:">>, event)>>
  IN IF PropThrows(event)
     THEN Catch(Error("TypeError", <<"Cannot read properties of ">>
                                   \o <<event.t>>), lg, TRUE, sc)
     ELSE IF IsFileUpdate(event)
     THEN triggerGitHubAction(e, event, now, lg, sc)
     ELSE Outcome("done",
                  Reply(200, [message |-> <<"Event ignored">>,
                              event_type |-> Prop(event, "event_type")]),
                  <<>>, lg, TRUE, sc)

\* handler line 28: the condition under which the request is answered 401
SignatureRejected(e, payload, signature) ==
  ~Falsy(e.FIGMA_WEBHOOK_SECRET)
    /\ ~verifyFigmaWebhook(payload, signature, e.FIGMA_WEBHOOK_SECRET)

\* handler lines 22-31, for a body that parsed
CheckSignature(e, r, body, now) ==
  LET payload == JSONstringify(body)
      signature == r.signature
      webhookSecret == e.FIGMA_WEBHOOK_SECRET
  IN IF ~Falsy(webhookSecret) /\ UpdateThrows(payload)
     THEN Catch(Error("TypeError", <<"The \"data\" argument must be of type string">>),
                <<>>, TRUE, TRUE)
     ELSE IF SignatureRejected(e, payload, signature)
     THEN Outcome("done", Reply(401, [error |-> <<"Invalid signature">>]), <<>>,
                  <<LogLine("error", <<"Invalid webhook signature">>, Undefined)>>,
                  TRUE, TRUE)
     ELSE FilterEvent(e, body, now, ~Falsy(webhookSecret))

\* mutant: no branch for OPTIONS, which falls through to the method check
HandlerRunNoPreflight(e, r, now) ==
  IF r.method # "POST"
  THEN Outcome("done", Reply(405, [error |-> <<"Method not allowed">>]),
               <<>>, <<>>, FALSE, FALSE)
  ELSE LET body == RequestBody(r.rawBody)
       IN IF body.t = "SyntaxError"
          THEN Catch(Error("SyntaxError", <<"Invalid JSON">>), <<>>, TRUE, FALSE)
          ELSE CheckSignature(e, r, body, now)

\* handler, from its entry to its first await or its reply
HandlerRun(e, r, now) ==
  IF r.method = "OPTIONS"
  THEN Outcome("done", Reply(200, [message |-> <<"OK">>]), <<>>, <<>>, FALSE, FALSE)
  ELSE IF r.method # "POST"
  THEN Outcome("done", Reply(405, [error |-> <<"Method not allowed">>]),
               <<>>, <<>>, FALSE, FALSE)
  ELSE LET body == RequestBody(r.rawBody)
       IN IF body.t = "SyntaxError"
          THEN Catch(Error("SyntaxError", <<"Invalid JSON">>), <<>>, TRUE, FALSE)
          ELSE CheckSignature(e, r, body, now)

\* the forge's answer to the dispatch POST: a response, or no response at all
\* (fetch rejects)
ForgeAnswers ==
  {[kind |-> "response", status |-> 200, code |-> "200", text |-> "OK"],
   [kind |-> "response", status |-> 204, code |-> "204", text |-> ""],
   [kind |-> "response", status |-> 401, code |-> "401", text |-> "Bad credentials"],
   [kind |-> "response", status |-> 404, code |-> "404", text |-> "Not Found"],
   [kind |-> "response", status |-> 500, code |-> "500", text |-> "Server Error"],
   [kind |-> "rejected", status |-> 0, code |-> "", text |-> "fetch failed"]}

\* response.ok
ResponseOk(answer) == answer.kind = "response" /\ answer.status \in 200..299

\* triggerGitHubAction after its await of fetch: it throws when there is no
\* answer, waits for response.text() when the answer is not ok, else logs
\* the success line and returns
AfterFetch(answer, lg) ==
  IF answer.kind = "rejected"
  THEN [pc |-> "awaitTrigger",
        awaited |-> Rejected(Error("TypeError", <<answer.text>>)), log |-> lg]
  ELSE IF ~ResponseOk(answer)
  THEN [pc |-> "awaitText", awaited |-> Pending, log |-> lg]
  ELSE [pc |-> "awaitTrigger",
        awaited |-> Fulfilled,
        log |-> Append(lg, LogLine("log",
                  <<"Successfully triggered GitHub Action for Figma update">>,
                  Undefined))]

\* triggerGitHubAction after its await of response.text(): the throw of
\* line 89 with the text in the message, or the error of a body that could
\* not be read
AfterText(answer, arrived) ==
  IF arrived
  THEN Rejected(Error("Error", <<"GitHub API error: ", answer.code, " ",
                                 answer.text>>))
  ELSE Rejected(Error("TypeError", <<"terminated">>))

\* handler resumed at line 38: the reply of line 39, or the catch block when
\* the awaited promise was rejected
AfterTrigger(settled, lg) ==
  IF settled.state = "rejected"
  THEN [res |-> CatchReply(settled.error),
        log |-> Append(lg, LogLine("error", <<"Webhook processing error:">>,
                                   settled.error))]
  ELSE [res |-> Reply(200, [message |-> <<"Webhook processed successfully">>,
                            triggered |-> TRUE]),
        log |-> lg]

---------------------------------------------------------------------------
(* The sync script, scripts/pull-figma-and-update-docs.mjs.  Names and     *)
(* node identifiers are sequences of characters; the text of a             *)
(* documentation page is its sequence of blocks.                           *)

UpperCase ==
  [c \in {"A", "B", "C", "D", "E", "F", "G", "H", "I", "J", "K", "L", "M", "N",
          "O", "P", "Q", "R", "S", "T", "U", "V", "W", "X", "Y", "Z"} |->
     CASE c = "A" -> "a" [] c = "B" -> "b" [] c = "C" -> "c" [] c = "D" -> "d"
       [] c = "E" -> "e" [] c = "F" -> "f" [] c = "G" -> "g" [] c = "H" -> "h"
       [] c = "I" -> "i" [] c = "J" -> "j" [] c = "K" -> "k" [] c = "L" -> "l"
       [] c = "M" -> "m" [] c = "N" -> "n" [] c = "O" -> "o" [] c = "P" -> "p"
       [] c = "Q" -> "q" [] c = "R" -> "r" [] c = "S" -> "s" [] c = "T" -> "t"
       [] c = "U" -> "u" [] c = "V" -> "v" [] c = "W" -> "w" [] c = "X" -> "x"
       [] c = "Y" -> "y" [] c = "Z" -> "z"]

\* s.toLowerCase()
ToLowerCase(s) ==
  [i \in 1..Len(s) |-> IF s[i] \in DOMAIN UpperCase THEN UpperCase[s[i]] ELSE s[i]]

\* s.includes(sub)
Includes(s, sub) ==
  \E i \in 0..(Len(s) - Len(sub)) : SubSeq(s, i + 1, i + Len(sub)) = sub

\* nodeId.replace(/:/g, '-')
ReplaceColons(s) == [i \in 1..Len(s) |-> IF s[i] = ":" THEN "-" ELSE s[i]]

\* a file that does not exist
Missing == [k |-> "missing"]

\* blocks of a page
Heading(level, title) == [k |-> "heading", level |-> level, title |-> title]
NodeHeading(id) == [k |-> "nodeheading", level |-> 2, id |-> id]
Text(x) == [k |-> "text", x |-> x]
Warning == [k |-> "warning"]
Note(at) == [k |-> "note", at |-> at]
Img(src, alt) == [k |-> "img", src |-> src, alt |-> alt]
LastSyncPlaceholder == [k |-> "lastsync", stamped |-> FALSE, at |-> 0]
LastSync(at) == [k |-> "lastsync", stamped |-> TRUE, at |-> at]

Mdx(items) == [k |-> "mdx", items |-> items]

\* the block texts that begin with "Component Screenshots"
SectionTitles == {"Component Screenshots", "Component Screenshots (Figma)"}

\* the text "## Component Screenshots" occurs in the block
StartsSection(b) == b.k = "heading" /\ b.level >= 2 /\ b.title \in SectionTitles

\* the text "##" occurs at the start of the block
HasHashes(b) == b.k \in {"heading", "nodeheading"} /\ b.level >= 2

\* the screenshots section of updateComponentPage: one sub-heading and one
\* image per screenshot
RECURSIVE ScreenshotsSection(_)
ScreenshotsSection(images) ==
  IF images = <<>> THEN <<>>
  ELSE <<NodeHeading(ReplaceColons(Head(images).nodeId)),
         Img(Head(images).path, Head(images).nodeId)>>
       \o ScreenshotsSection(Tail(images))

\* content.replace(/## Component Screenshots[\s\S]*?(?=##|$)/, section): the
\* first match runs from the first "## Component Screenshots" to the next
\* "##" or to the end of the text
MatchEnd(items, i) ==
  IF \E j \in (i + 1)..Len(items) : HasHashes(items[j])
  THEN CHOOSE j \in (i + 1)..Len(items) :
         HasHashes(items[j]) /\ \A m \in (i + 1)..(j - 1) : ~HasHashes(items[m])
  ELSE Len(items) + 1

ReplaceSection(items, images, now) ==
  IF \E i \in 1..Len(items) : StartsSection(items[i])
  THEN LET i == CHOOSE n \in 1..Len(items) :
                  StartsSection(items[n]) /\ \A m \in 1..(n - 1) : ~StartsSection(items[m])
           j == MatchEnd(items, i)
       IN SubSeq(items, 1, i - 1)
          \o <<Heading(items[i].level, "Component Screenshots"), Note(now)>>
          \o ScreenshotsSection(images)
          \o SubSeq(items, j, Len(items))
  ELSE items

\* content.replace(/<Warning>[\s\S]*?<\/Warning>\s*/g, '')
IsNotWarning(b) == b.k # "warning"

RemoveWarnings(items) == SelectSeq(items, IsNotWarning)

\* updateComponentPage gets as far as reading the clock: the page was read
PageRead(fs, componentType) == fs.pages[componentType] # Missing

\* updateComponentPage: a page that cannot be read or written is left as it is
updateComponentPage(fs, componentType, images, fault, now) ==
  LET page == fs.pages[componentType]
  IN IF page = Missing \/ fault = "page.write" THEN fs
     ELSE [fs EXCEPT !.pages[componentType] =
             Mdx(RemoveWarnings(ReplaceSection(page.items, images, now)))]

Alert == <<"a", "l", "e", "r", "t">>
Form == <<"f", "o", "r", "m">>
Input == <<"i", "n", "p", "u", "t">>
Field == <<"f", "i", "e", "l", "d">>
Card == <<"c", "a", "r", "d">>
AlertNode == <<"2", "2", "1", "2", "3", ":", "4", "7", "6", "6", "4", "3">>

IsAlert(img) ==
  Includes(ToLowerCase(img.nodeId), Alert) \/ Includes(img.nodeId, AlertNode)

IsForm(img) ==
  \/ Includes(ToLowerCase(img.nodeId), Form)
  \/ Includes(ToLowerCase(img.nodeId), Input)
  \/ Includes(ToLowerCase(img.nodeId), Field)

IsCard(img) == Includes(ToLowerCase(img.nodeId), Card)

\* componentGroups of updateComponentPages ("other" is never written)
ComponentGroup(screenshots, componentType) ==
  CASE componentType = "alerts" -> SelectSeq(screenshots, IsAlert)
    [] componentType = "forms" -> SelectSeq(screenshots, IsForm)
    [] componentType = "cards" -> SelectSeq(screenshots, IsCard)

GroupOrder == <<"alerts", "forms", "cards">>

\* the loop of updateComponentPages from its i-th group on: the first group
\* that is not empty is the next page to update
NextGroup(screenshots, i) ==
  IF \E j \in i..Len(GroupOrder) : ComponentGroup(screenshots, GroupOrder[j]) # <<>>
  THEN GroupOrder[CHOOSE j \in i..Len(GroupOrder) :
                    /\ ComponentGroup(screenshots, GroupOrder[j]) # <<>>
                    /\ \A m \in i..(j - 1) :
                         ComponentGroup(screenshots, GroupOrder[m]) = <<>>]
  ELSE "done"

GroupIndex(componentType) ==
  CHOOSE i \in 1..Len(GroupOrder) : GroupOrder[i] = componentType

\* generateColorsPage, generateSpacingPage, generateTypographyPage: the
\* title, the time of rendering, one entry per token (colors with a swatch)
RECURSIVE TokenEntries(_, _)
TokenEntries(tokens, swatch) ==
  IF tokens = <<>> THEN <<>>
  ELSE <<[name |-> Head(tokens)[1], value |-> Head(tokens)[2].value,
          type |-> Head(tokens)[2].type, swatch |-> swatch]>>
       \o TokenEntries(Tail(tokens), swatch)

generateColorsPage(colors, now) ==
  [k |-> "mdx", title |-> "Colors", synced |-> now,
   entries |-> TokenEntries(colors, TRUE)]

generateSpacingPage(spacing, now) ==
  [k |-> "mdx", title |-> "Spacing", synced |-> now,
   entries |-> TokenEntries(spacing, FALSE)]

generateTypographyPage(typography, now) ==
  [k |-> "mdx", title |-> "Typography", synced |-> now,
   entries |-> TokenEntries(typography, FALSE)]

\* updateTokensPages: the page generated and written at each of its three
\* steps
TokensPage(name, tokens, now) ==
  CASE name = "colors" -> generateColorsPage(tokens.colors, now)
    [] name = "spacing" -> generateSpacingPage(tokens.spacing, now)
    [] name = "typography" -> generateTypographyPage(tokens.typography, now)

WriteTokensPage(fs, name, page) ==
  CASE name = "colors" -> [fs EXCEPT !.colors = page]
    [] name = "spacing" -> [fs EXCEPT !.spacing = page]
    [] name = "typography" -> [fs EXCEPT !.typography = page]

TokensPageNames == {"colors", "spacing", "typography"}

\* the fault that makes the write of a token page fail
TokensPageWriteFault(name) ==
  CASE name = "colors" -> "colors.write"
    [] name = "spacing" -> "spacing.write"
    [] name = "typography" -> "typography.write"

\* what updateDocumentation does after the write of a token page
AfterTokensPage(name, screenshots) ==
  CASE name = "colors" -> "spacing"
    [] name = "spacing" -> "typography"
    [] name = "typography" -> NextGroup(screenshots, 1)

\* what updateDocumentation does after the write of the introduction:
\* if (tokens) updateTokensPages; if (screenshots.length > 0)
\* updateComponentPages
AfterIntroduction(tokens, screenshots) ==
  IF tokens # Null THEN "colors" ELSE NextGroup(screenshots, 1)

\* mutant: only the first occurrence of the placeholder is replaced
StampFirstOnly(items, now) ==
  [i \in 1..Len(items) |->
     IF items[i] = LastSyncPlaceholder
        /\ \A j \in 1..(i - 1) : items[j] # LastSyncPlaceholder
     THEN LastSync(now) ELSE items[i]]

\* .replace(/Last sync: \[AUTO-GENERATED\]/g, `Last sync: ${timestamp}`)
StampLastSync(items, now) ==
  [i \in 1..Len(items) |->
     IF items[i] = LastSyncPlaceholder THEN LastSync(now) ELSE items[i]]

Color == <<"c", "o", "l", "o", "r">>
Spacing == <<"s", "p", "a", "c", "i", "n", "g">>
Font == <<"f", "o", "n", "t">>
Typography == <<"t", "y", "p", "o", "g", "r", "a", "p", "h", "y">>

\* variable.valuesByMode[modeId]
ValueByMode(valuesByMode, modeId) ==
  IF HasKey(valuesByMode, modeId)
  THEN valuesByMode[KeyIndex(valuesByMode, modeId)][2]
  ELSE Undefined

\* the body of the inner forEach of transformVariablesToTokens
Classify(tokens, collection, variable) ==
  IF variable.variableCollectionId # collection.id THEN tokens
  ELSE LET tokenValue == ValueByMode(variable.valuesByMode, collection.defaultModeId)
           vname == ToLowerCase(variable.name)
           cname == ToLowerCase(collection.name)
       IN IF Includes(vname, Color) \/ Includes(cname, Color)
          THEN [tokens EXCEPT !.colors =
                  SetMember(@, variable.name, [value |-> tokenValue, type |-> "color"])]
          ELSE IF Includes(vname, Spacing) \/ Includes(cname, Spacing)
          THEN [tokens EXCEPT !.spacing =
                  SetMember(@, variable.name,
                            [value |-> Str(Template(tokenValue) \o <<"p", "x">>),
                             type |-> "dimension"])]
          ELSE IF Includes(vname, Font) \/ Includes(cname, Typography)
          THEN [tokens EXCEPT !.typography =
                  SetMember(@, variable.name,
                            [value |-> tokenValue, type |-> "fontFamily"])]
          ELSE tokens

RECURSIVE ForEachVariable(_, _, _)
ForEachVariable(tokens, collection, variables) ==
  IF variables = <<>> THEN tokens
  ELSE ForEachVariable(Classify(tokens, collection, Head(variables)), collection,
                       Tail(variables))

RECURSIVE ForEachCollection(_, _, _)
ForEachCollection(tokens, collections, variables) ==
  IF collections = <<>> THEN tokens
  ELSE ForEachCollection(ForEachVariable(tokens, Head(collections), variables),
                         Tail(collections), variables)

\* transformVariablesToTokens: meta, meta.variableCollections and
\* meta.variables may each be absent
transformVariablesToTokens(figmaData, now) ==
  LET tokens == [colors |-> <<>>, typography |-> <<>>, spacing |-> <<>>,
                 lastSync |-> now]
  IN IF figmaData.meta.t = "undefined" THEN tokens
     ELSE IF figmaData.meta.variableCollections.t = "undefined" THEN tokens
     ELSE IF figmaData.meta.variables.t = "undefined" THEN tokens
     ELSE ForEachCollection(tokens, figmaData.meta.variableCollections.values,
                            figmaData.meta.variables.values)

\* response.ok of a Figma API response
FigmaOk(response) == response.kind = "response" /\ response.status \in 200..299

\* mutant: the token document is written before the response is checked
fetchDesignTokensWriteFirst(fs, response, fault, now) ==
  IF response.kind = "rejected" THEN [ret |-> Null, fs |-> fs]
  ELSE LET tokens == transformVariablesToTokens(response.data, now)
       IN IF ~FigmaOk(response)
          THEN [ret |-> Null, fs |-> [fs EXCEPT !.tokensJson = [k |-> "json", doc |-> tokens]]]
          ELSE [ret |-> tokens, fs |-> [fs EXCEPT !.tokensJson = [k |-> "json", doc |-> tokens]]]

\* mutant: the new token document is merged into the one on disk
KeepOthers(old, new) ==
  SelectSeq(old, LAMBDA entry : ~HasKey(new, entry[1])) \o new

fetchDesignTokensMerge(fs, response, fault, now) ==
  IF ~FigmaOk(response) THEN [ret |-> Null, fs |-> fs]
  ELSE LET tokens == transformVariablesToTokens(response.data, now)
           merged == IF fs.tokensJson = Missing THEN tokens
                     ELSE [tokens EXCEPT
                             !.colors = KeepOthers(fs.tokensJson.doc.colors, @),
                             !.spacing = KeepOthers(fs.tokensJson.doc.spacing, @),
                             !.typography =
                               KeepOthers(fs.tokensJson.doc.typography, @)]
       IN IF fault = "tokens.write" THEN [ret |-> Null, fs |-> fs]
          ELSE [ret |-> merged,
                fs |-> [fs EXCEPT !.tokensJson = [k |-> "json", doc |-> merged]]]

\* fetchDesignTokens: null when the request fails, the response is not ok or
\* the token document cannot be written
fetchDesignTokens(fs, response, fault, now) ==
  IF ~FigmaOk(response) THEN [ret |-> Null, fs |-> fs]
  ELSE LET tokens == transformVariablesToTokens(response.data, now)
       IN IF fault = "tokens.write" THEN [ret |-> Null, fs |-> fs]
          ELSE [ret |-> tokens,
                fs |-> [fs EXCEPT !.tokensJson = [k |-> "json", doc |-> tokens]]]

\* s.split(','): the pieces between the commas
RECURSIVE SplitCommas(_, _)
SplitCommas(s, cur) ==
  IF s = <<>> THEN <<cur>>
  ELSE IF Head(s) = "," THEN <<cur>> \o SplitCommas(Tail(s), <<>>)
  ELSE SplitCommas(Tail(s), Append(cur, Head(s)))

\* process.env.FIGMA_NODE_IDS?.split(',') || []
NodeIds(e) ==
  IF e.FIGMA_NODE_IDS.t = "undefined" THEN <<>>
  ELSE SplitCommas(e.FIGMA_NODE_IDS.s, <<>>)

\* process.env.GITHUB_REPOSITORY || "hellojulian/mintlify"
HostingRepository(e) ==
  IF Falsy(e.GITHUB_REPOSITORY) THEN <<"hellojulian/mintlify">>
  ELSE e.GITHUB_REPOSITORY.s

\* mutant: the node id goes into the file name as it is
FilenameWithColons(nodeId) ==
  <<"f", "i", "g", "m", "a", "-">> \o nodeId \o <<".", "p", "n", "g">>

Filename(nodeId) ==
  <<"f", "i", "g", "m", "a", "-">> \o ReplaceColons(nodeId) \o <<".", "p", "n", "g">>

ScreenshotRecord(e, nodeId) ==
  [nodeId |-> nodeId,
   safeNodeId |-> ReplaceColons(nodeId),
   filename |-> Filename(nodeId),
   path |-> <<"https://raw.githubusercontent.com/">> \o HostingRepository(e)
            \o <<"/main/public/images/">> \o Filename(nodeId)]

\* fs.writeFile of one image: a file of the same name is replaced
WriteImage(images, filename, data) ==
  {f \in images : f.name # filename} \cup {[name |-> filename, data |-> data]}

\* for (const [nodeId, imageUrl] of entries) { if (imageUrl) ... }: the
\* entries from the first one that has a URL on
RECURSIVE SkipNoUrl(_)
SkipNoUrl(entries) ==
  IF entries = <<>> THEN <<>>
  ELSE IF Falsy(Head(entries)[2]) THEN SkipNoUrl(Tail(entries))
  ELSE entries

NoDownload == [entries |-> <<>>, acc |-> <<>>]

---------------------------------------------------------------------------
(* Inputs of the sync script *)

MaxRuns == 2

MaxCalls == 2

NodeOther == <<"1", "2", ":", "3", "4">>
NodeForm == <<"F", "o", "r", "m", ":", "3">>
NodeAlertB == <<"a", "l", "e", "r", "t", ":", "9">>

SyncEnvs ==
  {[FIGMA_TOKEN |-> tk, FIGMA_FILE_KEY |-> Str(<<"file-key">>),
    FIGMA_NODE_IDS |-> ids, GITHUB_REPOSITORY |-> Undefined] :
     tk \in {Undefined, Str(<<"figd_t">>)},
     ids \in {Undefined, Str(<<>>), Str(NodeOther \o <<",">> \o AlertNode)}}

UpdaterEnv ==
  [FIGMA_TOKEN |-> Str(<<"figd_t">>), FIGMA_FILE_KEY |-> Str(<<"file-key">>),
   FIGMA_NODE_IDS |-> Undefined, GITHUB_REPOSITORY |-> Str(<<"octo/docs">>)]

CollBrand ==
  [id |-> "c1", name |-> <<"B", "r", "a", "n", "d">>, defaultModeId |-> "m1"]
CollColors ==
  [id |-> "c2", name |-> <<"T", "h", "e", "m", "e", " ", "C", "o", "l", "o", "r", "s">>, defaultModeId |-> "m2"]

VarPrimaryColor ==
  [id |-> "v1", name |-> <<"P", "r", "i", "m", "a", "r", "y", " ", "C", "o", "l", "o", "r">>, variableCollectionId |-> "c1",
   valuesByMode |-> << <<"m1", Str(<<"#", "f", "f", "f">>)>>,
                       <<"m2", Str(<<"#", "0", "0", "0">>)>> >>]
VarSpacingSm ==
  [id |-> "v2", name |-> <<"S", "p", "a", "c", "i", "n", "g", "/", "s", "m">>, variableCollectionId |-> "c1",
   valuesByMode |-> << <<"m1", Num(<<"8">>)>> >>]
VarFontFamily ==
  [id |-> "v3", name |-> <<"F", "o", "n", "t", " ", "F", "a", "m", "i", "l", "y">>, variableCollectionId |-> "c1",
   valuesByMode |-> << <<"m1", Str(<<"I", "n", "t", "e", "r">>)>> >>]
VarRadius ==
  [id |-> "v4", name |-> <<"R", "a", "d", "i", "u", "s">>, variableCollectionId |-> "c1",
   valuesByMode |-> << <<"m1", Num(<<"4">>)>> >>]
VarThemeSpacing ==
  [id |-> "v5", name |-> <<"S", "p", "a", "c", "i", "n", "g", "/", "s", "m">>, variableCollectionId |-> "c2",
   valuesByMode |-> << <<"m2", Num(<<"1", "6">>)>> >>]

JsList(values) == [t |-> "list", values |-> values]

FigmaMeta(collections, variables) ==
  [meta |-> [t |-> "object", variableCollections |-> collections,
             variables |-> variables]]

\* bodies of the variables endpoint
FigmaDataSamples ==
  {[meta |-> Undefined],
   FigmaMeta(JsList(<<CollBrand>>), Undefined),
   FigmaMeta(JsList(<<CollBrand>>),
             JsList(<<VarPrimaryColor, VarSpacingSm, VarFontFamily, VarRadius>>)),
   FigmaMeta(JsList(<<CollBrand, CollColors>>),
             JsList(<<VarSpacingSm, VarThemeSpacing, VarPrimaryColor>>))}

\* the variables of the file the sync runs read: two collections
SyncFigmaData ==
  {x \in FigmaDataSamples :
     /\ x.meta # Undefined
     /\ x.meta.variables # Undefined
     /\ Len(x.meta.variableCollections.values) = 2}

\* answers of the variables endpoint: none, an error status, a document
TokenResponses ==
  {[kind |-> "rejected", status |-> 0, data |-> [meta |-> Undefined]],
   [kind |-> "response", status |-> 403, data |-> [meta |-> Undefined]]}
    \cup {[kind |-> "response", status |-> 200, data |-> d] : d \in SyncFigmaData}

Url(n) == Str(<<"https://figma-img/", n>>)

\* answers of the images endpoint: none, an error status, (nodeId, url) entries
ImageResponses ==
  {[kind |-> "rejected", status |-> 0, images |-> <<>>],
   [kind |-> "response", status |-> 404, images |-> <<>>],
   [kind |-> "response", status |-> 200, images |-> <<>>],
   [kind |-> "response", status |-> 200,
    images |-> << <<NodeOther, Url("a")>>, <<AlertNode, Url("b")>> >>],
   [kind |-> "response", status |-> 200,
    images |-> << <<NodeOther, Null>>, <<AlertNode, Url("b")>> >>]}

\* the answers to a request for the node ids of e: images are rendered for
\* the nodes asked for, none for the empty identifier
ImageAnswers(e) ==
  IF NodeIds(e) = <<NodeOther, AlertNode>> THEN ImageResponses
  ELSE {r \in ImageResponses : r.images = <<>>}

\* the one operation that fails in a run, if any
SyncFaults ==
  {"none", "mkdir", "tokens.write", "intro.write", "colors.write", "spacing.write",
   "typography.write", "page.write"}

OldTokens ==
  [colors |-> << <<<<"O", "l", "d", " ", "C", "o", "l", "o", "r">>, [value |-> Str(<<"#", "1", "1", "1">>),
                                type |-> "color"]>> >>,
   typography |-> <<>>, spacing |-> <<>>, lastSync |-> 0]

IntroPages ==
  {Missing,
   Mdx(<<Text("Welcome")>>),
   Mdx(<<Text("Welcome"), LastSyncPlaceholder>>),
   Mdx(<<LastSyncPlaceholder, Text("Welcome"), LastSyncPlaceholder>>)}

ComponentPages ==
  {Missing,
   Mdx(<<Heading(1, "Alerts"), Text("About"), Warning>>),
   Mdx(<<Heading(1, "Alerts"), Heading(2, "Component Screenshots"), Warning>>),
   Mdx(<<Heading(1, "Alerts"), Heading(2, "Component Screenshots"), Warning,
         Heading(2, "Usage"), Text("How to"), Warning>>),
   Mdx(<<Heading(1, "Alerts"), Heading(3, "Component Screenshots (Figma)"),
         Text("None yet"), Heading(1, "Usage"), Text("How to")>>)}

Tree(tokensJson, fragment, intro, alerts, forms) ==
  [tokensJson |-> tokensJson, colors |-> fragment, spacing |-> fragment,
   typography |-> fragment, intro |-> intro,
   pages |-> [c \in {"alerts", "forms", "cards"} |->
                CASE c = "alerts" -> alerts [] c = "forms" -> forms
                  [] OTHER -> Missing],
   images |-> {}]

OldFragment == [k |-> "mdx", title |-> "Old", synced |-> 0, entries |-> <<>>]

\* working trees a sync run may find
SyncTrees ==
  {Tree(tj, OldFragment,
        Mdx(<<LastSyncPlaceholder, Text("Welcome"), LastSyncPlaceholder>>),
        Mdx(<<Heading(1, "Alerts"), Heading(2, "Component Screenshots"), Warning>>),
        Missing) :
     tj \in {Missing, [k |-> "json", doc |-> OldTokens]}}
    \cup {Tree([k |-> "json", doc |-> OldTokens], OldFragment, Missing, Missing, Missing)}

\* working trees updateDocumentation may find
UpdaterTrees ==
  {Tree(Missing, fr, intro, alerts, forms) :
     fr \in {Missing, OldFragment}, intro \in IntroPages, alerts \in ComponentPages,
     forms \in {Missing, Mdx(<<Heading(2, "Component Screenshots")>>)}}

UpdaterTokens ==
  {Null} \cup {transformVariablesToTokens(d, 0) : d \in FigmaDataSamples}

UpdaterShots ==
  {<<>>,
   <<ScreenshotRecord(UpdaterEnv, NodeOther)>>,
   <<ScreenshotRecord(UpdaterEnv, AlertNode)>>,
   <<ScreenshotRecord(UpdaterEnv, AlertNode), ScreenshotRecord(UpdaterEnv, NodeForm)>>,
   <<ScreenshotRecord(UpdaterEnv, NodeAlertB), ScreenshotRecord(UpdaterEnv, AlertNode)>>}

\* names of variable collections and of variables, as Figma returns them
CollectionNames ==
  {<<"B", "r", "a", "n", "d">>,
   <<"T", "h", "e", "m", "e", " ", "C", "o", "l", "o", "r", "s">>,
   <<"S", "P", "A", "C", "I", "N", "G">>,
   <<"T", "y", "p", "o", "g", "r", "a", "p", "h", "y">>,
   <<"F", "o", "n", "t", "s">>}

VariableNames ==
  {<<"P", "r", "i", "m", "a", "r", "y", " ", "C", "o", "l", "o", "r">>,
   <<"S", "p", "a", "c", "i", "n", "g", "/", "s", "m">>,
   <<"F", "o", "n", "t", " ", "F", "a", "m", "i", "l", "y">>,
   <<"T", "y", "p", "o", "g", "r", "a", "p", "h", "y", "/", "h", "1">>,
   <<"R", "a", "d", "i", "u", "s">>}

Collection(id, name) == [id |-> id, name |-> name, defaultModeId |-> "m1"]

Variable(id, name, collectionId, value) ==
  [id |-> id, name |-> name, variableCollectionId |-> collectionId,
   valuesByMode |-> << <<"m2", Str(<<"dark">>)>>, <<"m1", value>> >>]

\* meta.variableCollections: one or two collections
TransformCollections ==
  {<<Collection("c1", n)>> : n \in CollectionNames}
    \cup {<<Collection("c1", <<"B", "r", "a", "n", "d">>), Collection("c2", n)>> :
            n \in CollectionNames}

\* meta.variables: one or two variables, of a returned collection or of one
\* that is not returned ("c9"); two variables of one name are in different
\* collections
TransformVariables ==
  {<<Variable("v1", n, c, Num(<<"8">>))>> : n \in VariableNames, c \in {"c1", "c9"}}
    \cup {<<Variable("v1", x[1], "c1", Num(<<"8">>)),
            Variable("v2", x[2], x[3], Str(<<"#", "f", "f", "f">>))>> :
            x \in {y \in VariableNames \X VariableNames \X {"c1", "c2"} :
                     y[1] = y[2] => y[3] = "c2"}}

\* arguments of transformVariablesToTokens
TransformInputs ==
  FigmaDataSamples
    \cup {FigmaMeta(JsList(cs), JsList(vs)) :
            cs \in TransformCollections, vs \in TransformVariables}

---------------------------------------------------------------------------
(* Inputs of the webhook receiver *)

\* the HMAC-SHA256 of message B under key S, hex encoded, as a sender computes it
HmacSha256Hex(B, S) ==
  [t |-> "hexdigest", alg |-> "sha256", enc |-> "hex", key |-> S, msg |-> B]

WebhookSecrets == {Undefined, Str(<<>>), Str(<<"s1">>), Str(<<"s2">>)}

GitHubTokens == {Undefined, Str(<<>>), Str(<<"ghp_t">>)}

GitHubRepositories ==
  {Undefined, Str(<<>>), Str(<<"octo", "/", "docs">>), Str(<<"octo">>)}

Methods == {"OPTIONS", "POST", "GET", "DELETE"}

\* new Date().toISOString() at the time of the call
Times == {"2026-01-01T00:00:00.000Z", "2026-01-02T00:00:00.000Z"}

EventMembers ==
  {<<>>,
   << <<"event_type", "FILE_UPDATE">> >>,
   << <<"event_type", "PING">> >>,
   << <<"event_type", "null">> >>,
   << <<"file_name", "hero">> >>,
   << <<"event_type", "FILE_UPDATE">>, <<"file_name", "hero">> >>,
   << <<"event_type", "PING">>, <<"event_type", "FILE_UPDATE">> >>}

\* the text of an object as a sender writes it: compact, or with a space
\* after each ":" and ","
RECURSIVE RenderMembers(_, _, _)
RenderMembers(members, spaced, first) ==
  IF members = <<>> THEN <<>>
  ELSE LET sp == IF spaced THEN <<" ">> ELSE <<>>
       IN (IF first THEN <<>> ELSE <<",">> \o sp)
          \o <<Head(members)[1], ":">> \o sp \o <<Head(members)[2]>>
          \o RenderMembers(Tail(members), spaced, FALSE)

RenderObject(members, spaced) ==
  <<"{">> \o RenderMembers(members, spaced, TRUE) \o <<"}">>

\* <<>>: no body; <<"{">> and the unquoted-colon text do not parse
RawBodies ==
  {RenderObject(m, sp) : m \in EventMembers, sp \in BOOLEAN}
    \cup {<<>>, <<"null">>, <<"PING">>, <<"{">>, <<"{", "event_type", "}">>}

SenderKeys == {<<"s1">>, <<"s2">>}

\* the x-figma-signature headers tried with a body: none, a string that is no
\* digest, the HMAC of the text as sent, of the text without its whitespace,
\* and of another text
Signatures(raw) ==
  {Undefined, Str(<<"deadbeef">>)}
    \cup {HmacSha256Hex(raw, k) : k \in SenderKeys}
    \cup {HmacSha256Hex(StripWs(raw), k) : k \in SenderKeys}
    \cup {HmacSha256Hex(<<"{", "other", ":", "text", "}">>, k) : k \in SenderKeys}

Requests ==
  UNION {{[method |-> m, rawBody |-> raw, signature |-> sg] :
            m \in Methods, sg \in Signatures(raw)} : raw \in RawBodies}

NoRequest == [method |-> "", rawBody |-> <<>>, signature |-> Undefined]

---------------------------------------------------------------------------
(* verifyFigmaWebhook as a pure function *)

VerifyBodies ==
  {<<>>, <<"{", "}">>, <<"{", " ", "}">>, <<"{", "a", ":", "b", "}">>,
   <<"{", "a", ":", " ", "b", "}">>, <<"null">>}

VerifyKeys == {<<>>, <<"s1">>, <<"s2">>}

VerifyInputs ==
  [payload : {Str(b) : b \in VerifyBodies},
   signature : {HmacSha256Hex(b, k) : b \in VerifyBodies, k \in VerifyKeys}
                 \cup {Undefined, Str(<<"deadbeef">>)},
   secret : {Str(k) : k \in VerifyKeys}]

NotCalled == [called |-> FALSE]

VerifyCall ==
  /\ ~vOut.called
  /\ vOut' = [called |-> TRUE,
              result |-> verifyFigmaWebhook(vIn.payload, vIn.signature, vIn.secret)]
  /\ UNCHANGED <<trVars, ghVars, vIn, whVars, fsVars, syVars, upVars>>


NoRunInfo ==
  [fault |-> "none", tokenFetch |-> "none", shotFetch |-> "none",
   imageRequested |-> FALSE, rendered |-> <<>>, updaterRan |-> FALSE]

SyncIdle ==
  /\ senv = UpdaterEnv
  /\ files = Tree(Missing, Missing, Missing, Missing, Missing)
  /\ clock = 1
  /\ spc = "idle"
  /\ exitCode = -1
  /\ tokensRet = Null
  /\ shotsRet = <<>>
  /\ runs = 0
  /\ startFiles = Tree(Missing, Missing, Missing, Missing, Missing)
  /\ runInfo = NoRunInfo
  /\ dl = NoDownload

TransformIdle ==
  /\ lastFetch = [fetched |-> files.tokensJson, written |-> files.tokensJson]
  /\ tIn = [meta |-> Undefined]
  /\ tOut = [called |-> FALSE]

UpdaterIdle ==
  /\ TransformIdle
  /\ upc = "idle"
  /\ uTokens = Null
  /\ uShots = <<>>
  /\ uCalls = 0
  /\ uPrev = Tree(Missing, Missing, Missing, Missing, Missing)

\* the script starts: the configuration check of lines 16-21, then main() up
\* to its first fetch (the three mkdir calls)
SyncStart(fault) ==
  /\ spc = "idle"
  /\ runs < MaxRuns
  /\ runs' = runs + 1
  /\ startFiles' = files
  /\ runInfo' = [NoRunInfo EXCEPT !.fault = fault]
  /\ tokensRet' = Null
  /\ shotsRet' = <<>>
  /\ IF Falsy(senv.FIGMA_TOKEN) \/ Falsy(senv.FIGMA_FILE_KEY) \/ fault = "mkdir"
     THEN spc' = "exited" /\ exitCode' = 1
     ELSE spc' = "tokens" /\ exitCode' = -1
  /\ UNCHANGED <<trVars, ghVars, senv, fsVars, dl, whVars, vfVars, upVars>>

\* const tokens = await fetchDesignTokens()
FetchTokens(response) ==
  /\ spc = "tokens"
  /\ LET r == fetchDesignTokens(files, response, runInfo.fault, clock)
     IN /\ files' = r.fs
        /\ tokensRet' = r.ret
  /\ clock' = IF FigmaOk(response) THEN clock + 1 ELSE clock
  /\ LET document == [k |-> "json",
                      doc |-> transformVariablesToTokens(response.data, clock)]
     IN lastFetch' =
          [fetched |-> IF FigmaOk(response) THEN document ELSE lastFetch.fetched,
           written |-> IF FigmaOk(response) /\ runInfo.fault # "tokens.write"
                       THEN document ELSE lastFetch.written]
  /\ runInfo' = [runInfo EXCEPT !.tokenFetch =
                   IF response.kind = "rejected" THEN "rejected"
                   ELSE IF FigmaOk(response) THEN "ok" ELSE "http"]
  /\ spc' = "shots"
  /\ UNCHANGED <<trVars, senv, exitCode, shotsRet, runs, startFiles, dl, whVars,
                 vfVars, upVars>>

\* const screenshots = await fetchScreenshots(), up to the return of [] (no
\* node ids, no answer, an answer that is not ok), to the return of
\* downloadedImages when no entry has a URL, or to the first download
FetchShots(response) ==
  /\ spc = "shots"
  /\ IF NodeIds(senv) = <<>>
     THEN /\ runInfo' = [runInfo EXCEPT !.shotFetch = "skipped"]
          /\ spc' = "docs"
          /\ dl' = NoDownload
     ELSE IF ~FigmaOk(response)
     THEN /\ runInfo' = [runInfo EXCEPT !.imageRequested = TRUE,
                                        !.shotFetch = "failed"]
          /\ spc' = "docs"
          /\ dl' = NoDownload
     ELSE IF SkipNoUrl(response.images) = <<>>
     THEN /\ runInfo' = [runInfo EXCEPT !.imageRequested = TRUE,
                                        !.rendered = response.images,
                                        !.shotFetch = "ok"]
          /\ spc' = "docs"
          /\ dl' = NoDownload
     ELSE /\ runInfo' = [runInfo EXCEPT !.imageRequested = TRUE,
                                        !.rendered = response.images]
          /\ spc' = "download"
          /\ dl' = [entries |-> SkipNoUrl(response.images), acc |-> <<>>]
  /\ shotsRet' = <<>>
  /\ UNCHANGED <<trVars, ghVars, fsVars, senv, exitCode, tokensRet, runs, startFiles,
                 whVars, vfVars, upVars>>

\* await downloadImage(imageUrl, path) for the next entry that has a URL,
\* then the loop up to the next download or the return; a download that
\* fails ends fetchScreenshots with []
DownloadImage(ok) ==
  /\ spc = "download"
  /\ LET nodeId == Head(dl.entries)[1]
         imageUrl == Head(dl.entries)[2]
         rest == SkipNoUrl(Tail(dl.entries))
         downloadedImages == Append(dl.acc, ScreenshotRecord(senv, nodeId))
     IN IF ~ok
        THEN /\ UNCHANGED files
             /\ shotsRet' = <<>>
             /\ runInfo' = [runInfo EXCEPT !.shotFetch = "failed"]
             /\ spc' = "docs"
             /\ dl' = NoDownload
        ELSE /\ files' = [files EXCEPT
                            !.images = WriteImage(@, Filename(nodeId), imageUrl)]
             /\ IF rest = <<>>
                THEN /\ shotsRet' = downloadedImages
                     /\ runInfo' = [runInfo EXCEPT !.shotFetch = "ok"]
                     /\ spc' = "docs"
                     /\ dl' = NoDownload
                ELSE /\ dl' = [entries |-> rest, acc |-> downloadedImages]
                     /\ UNCHANGED <<shotsRet, runInfo, spc>>
  /\ UNCHANGED <<trVars, ghVars, clock, senv, exitCode, tokensRet, runs, startFiles,
                 whVars, vfVars, upVars>>

\* main() calls updateDocumentation(tokens, screenshots), which runs to its
\* read of the introduction
UpdateDocs ==
  /\ spc = "docs"
  /\ upc = "idle"
  /\ uTokens' = tokensRet
  /\ uShots' = shotsRet
  /\ upc' = "intro"
  /\ runInfo' = [runInfo EXCEPT !.updaterRan = TRUE]
  /\ spc' = "updating"
  /\ UNCHANGED <<trVars, ghVars, fsVars, senv, exitCode, tokensRet, shotsRet, runs,
                 startFiles, dl, uCalls, uPrev, whVars, vfVars>>

\* updateDocumentation, lines 273-282: the introduction is read, the clock
\* is read, the page is written with every placeholder stamped; a failure
\* of the read or of the write ends updateDocumentation in its catch
UpdateIntroduction ==
  /\ upc = "intro"
  /\ IF files.intro = Missing
     THEN /\ upc' = "done"
          /\ UNCHANGED fsVars
     ELSE /\ clock' = clock + 1
          /\ IF runInfo.fault = "intro.write"
             THEN /\ upc' = "done"
                  /\ UNCHANGED files
             ELSE /\ files' = [files EXCEPT
                                 !.intro = Mdx(StampLastSync(files.intro.items, clock))]
                  /\ upc' = AfterIntroduction(uTokens, uShots)
  /\ UNCHANGED <<trVars, ghVars, syVars, uTokens, uShots, uCalls, uPrev, whVars,
                 vfVars>>

\* updateTokensPages, one page: the page is generated (the clock is read)
\* and written; a write that fails ends updateDocumentation in its catch
UpdateTokensPage(name) ==
  /\ upc = name
  /\ clock' = clock + 1
  /\ IF runInfo.fault = TokensPageWriteFault(name)
     THEN /\ upc' = "done"
          /\ UNCHANGED files
     ELSE /\ files' = WriteTokensPage(files, name, TokensPage(name, uTokens, clock))
          /\ upc' = AfterTokensPage(name, uShots)
  /\ UNCHANGED <<trVars, ghVars, syVars, uTokens, uShots, uCalls, uPrev, whVars,
                 vfVars>>

\* updateComponentPage(componentType, images) for the next group that is
\* not empty: the page is read, the clock is read, the page is written; a
\* failure is caught inside and the loop goes on
UpdatePage(componentType) ==
  /\ upc = componentType
  /\ files' = updateComponentPage(files, componentType,
                                  ComponentGroup(uShots, componentType),
                                  runInfo.fault, clock)
  /\ clock' = IF PageRead(files, componentType) THEN clock + 1
               ELSE clock
  /\ upc' = NextGroup(uShots, GroupIndex(componentType) + 1)
  /\ UNCHANGED <<trVars, ghVars, syVars, uTokens, uShots, uCalls, uPrev, whVars,
                 vfVars>>

\* updateDocumentation returns, main() logs and returns, the process ends
MainReturns ==
  /\ spc = "updating"
  /\ upc = "done"
  /\ upc' = "idle"
  /\ uTokens' = Null
  /\ uShots' = <<>>
  /\ spc' = "exited"
  /\ exitCode' = 0
  /\ UNCHANGED <<trVars, ghVars, fsVars, senv, tokensRet, shotsRet, runs, startFiles,
                 runInfo, dl, uCalls, uPrev, whVars, vfVars>>

\* the process has ended; the next scheduled run is a new process that finds
\* the working tree the last one left
NextRun ==
  /\ spc = "exited"
  /\ runs < MaxRuns
  /\ spc' = "idle"
  /\ exitCode' = -1
  /\ tokensRet' = Null
  /\ shotsRet' = <<>>
  /\ startFiles' = files
  /\ runInfo' = NoRunInfo
  /\ UNCHANGED <<trVars, ghVars, senv, fsVars, runs, dl, whVars, vfVars, upVars>>

\* updateDocumentation(uTokens, uShots) is called, again with the same
\* arguments, and runs to its read of the introduction
UpdaterCall ==
  /\ spc = "idle"
  /\ upc = "idle"
  /\ uCalls < MaxCalls
  /\ uPrev' = files
  /\ upc' = "intro"
  /\ UNCHANGED <<trVars, ghVars, fsVars, uTokens, uShots, uCalls, syVars, whVars,
                 vfVars>>

\* updateDocumentation returns to its caller
UpdaterReturns ==
  /\ spc = "idle"
  /\ upc = "done"
  /\ upc' = "idle"
  /\ uCalls' = uCalls + 1
  /\ UNCHANGED <<trVars, ghVars, fsVars, uTokens, uShots, uPrev, syVars, whVars,
                 vfVars>>

---------------------------------------------------------------------------
(* Specifications *)

WebhookEnvIdle ==
  env = [FIGMA_WEBHOOK_SECRET |-> Undefined, GITHUB_TOKEN |-> Undefined,
         GITHUB_REPOSITORY |-> Undefined]

VerifyIdle ==
  /\ vIn = [payload |-> Str(<<>>), signature |-> Undefined, secret |-> Str(<<>>)]
  /\ vOut = NotCalled

WebhookIdle ==
  /\ req = NoRequest
  /\ pc = "idle"
  /\ awaited = NotAwaiting
  /\ res = NoReply
  /\ outbound = <<>>
  /\ answers = <<>>
  /\ log = <<>>
  /\ bodyRead = FALSE
  /\ sigChecked = FALSE

Init ==
  /\ env \in [FIGMA_WEBHOOK_SECRET : WebhookSecrets, GITHUB_TOKEN : GitHubTokens,
              GITHUB_REPOSITORY : GitHubRepositories]
  /\ WebhookIdle
  /\ VerifyIdle
  /\ SyncIdle
  /\ UpdaterIdle

\* a request arrives and handler runs until it replies or is suspended at
\* the await of line 38
handler(request, now) ==
  /\ pc = "idle"
  /\ LET o == HandlerRun(env, request, now)
     IN /\ req' = request
        /\ pc' = o.pc
        /\ awaited' = o.awaited
        /\ res' = o.res
        /\ outbound' = o.outbound
        /\ answers' = <<>>
        /\ log' = o.log
        /\ bodyRead' = o.bodyRead
        /\ sigChecked' = o.sigChecked
  /\ UNCHANGED <<trVars, ghVars, env, vfVars, fsVars, syVars, upVars>>

\* the dispatch POST settles and triggerGitHubAction runs to its end or to
\* its await of response.text()
fetchSettles(answer) ==
  /\ pc = "awaitFetch"
  /\ LET o == AfterFetch(answer, log)
     IN /\ awaited' = o.awaited
        /\ log' = o.log
        /\ pc' = o.pc
  /\ answers' = Append(answers, answer)
  /\ UNCHANGED <<trVars, ghVars, env, req, res, outbound, bodyRead, sigChecked,
                 vfVars, fsVars, syVars, upVars>>

\* response.text() of the answer that is not ok settles and
\* triggerGitHubAction throws
textSettles(arrived) ==
  /\ pc = "awaitText"
  /\ awaited' = AfterText(answers[Len(answers)], arrived)
  /\ pc' = "awaitTrigger"
  /\ UNCHANGED <<trVars, ghVars, env, req, res, outbound, answers, log, bodyRead,
                 sigChecked, vfVars, fsVars, syVars, upVars>>

\* handler resumes from the await of line 38 and replies
handlerResumes ==
  /\ pc = "awaitTrigger"
  /\ LET o == AfterTrigger(awaited, log)
     IN /\ res' = o.res
        /\ log' = o.log
  /\ pc' = "done"
  /\ UNCHANGED <<trVars, ghVars, env, req, awaited, outbound, answers, bodyRead,
                 sigChecked, vfVars, fsVars, syVars, upVars>>

Next ==
  \/ \E request \in Requests, now \in Times : handler(request, now)
  \/ \E answer \in ForgeAnswers : fetchSettles(answer)
  \/ \E arrived \in BOOLEAN : textSettles(arrived)
  \/ handlerResumes

Spec == Init /\ [][Next]_vars

InitVerify ==
  /\ WebhookEnvIdle
  /\ WebhookIdle
  /\ vIn \in VerifyInputs
  /\ vOut = NotCalled
  /\ SyncIdle
  /\ UpdaterIdle

NextVerify == VerifyCall

SpecVerify == InitVerify /\ [][NextVerify]_vars

InitSync ==
  /\ WebhookEnvIdle
  /\ WebhookIdle
  /\ VerifyIdle
  /\ senv \in SyncEnvs
  /\ files \in SyncTrees
  /\ UpdaterIdle
  /\ startFiles = files
  /\ clock = 1
  /\ spc = "idle"
  /\ exitCode = -1
  /\ tokensRet = Null
  /\ shotsRet = <<>>
  /\ runs = 0
  /\ runInfo = NoRunInfo
  /\ dl = NoDownload

NextSync ==
  \/ \E fault \in SyncFaults : SyncStart(fault)
  \/ \E response \in TokenResponses : FetchTokens(response)
  \/ \E response \in ImageAnswers(senv) : FetchShots(response)
  \/ \E ok \in BOOLEAN : DownloadImage(ok)
  \/ UpdateDocs
  \/ UpdateIntroduction
  \/ \E name \in TokensPageNames : UpdateTokensPage(name)
  \/ \E componentType \in {"alerts", "forms", "cards"} : UpdatePage(componentType)
  \/ MainReturns
  \/ NextRun

SpecSync == InitSync /\ [][NextSync]_vars

InitUpdater ==
  /\ WebhookEnvIdle
  /\ WebhookIdle
  /\ VerifyIdle
  /\ senv = UpdaterEnv
  /\ spc = "idle"
  /\ exitCode = -1
  /\ tokensRet = Null
  /\ shotsRet = <<>>
  /\ runs = 0
  /\ runInfo = NoRunInfo
  /\ dl = NoDownload
  /\ files \in UpdaterTrees
  /\ TransformIdle
  /\ startFiles = files
  /\ uPrev = files
  /\ clock = 1
  /\ uTokens \in UpdaterTokens
  /\ uShots \in UpdaterShots
  /\ upc = "idle"
  /\ uCalls = 0

NextUpdater ==
  \/ UpdaterCall
  \/ UpdateIntroduction
  \/ \E name \in TokensPageNames : UpdateTokensPage(name)
  \/ \E componentType \in {"alerts", "forms", "cards"} : UpdatePage(componentType)
  \/ UpdaterReturns

SpecUpdater == InitUpdater /\ [][NextUpdater]_vars

\* tokens = transformVariablesToTokens(data)
TransformCall ==
  /\ ~tOut.called
  /\ tOut' = [called |-> TRUE, tokens |-> transformVariablesToTokens(tIn, clock)]
  /\ clock' = clock + 1
  /\ UNCHANGED <<tIn, files, ghVars, whVars, vfVars, syVars, upVars>>

InitTransform ==
  /\ WebhookEnvIdle
  /\ WebhookIdle
  /\ VerifyIdle
  /\ senv = UpdaterEnv
  /\ files = Tree(Missing, Missing, Missing, Missing, Missing)
  /\ startFiles = files
  /\ clock = 1
  /\ spc = "idle"
  /\ exitCode = -1
  /\ tokensRet = Null
  /\ shotsRet = <<>>
  /\ runs = 0
  /\ runInfo = NoRunInfo
  /\ dl = NoDownload
  /\ upc = "idle"
  /\ uTokens = Null
  /\ uShots = <<>>
  /\ uCalls = 0
  /\ uPrev = files
  /\ tIn \in TransformInputs
  /\ tOut = [called |-> FALSE]
  /\ lastFetch = [fetched |-> files.tokensJson, written |-> files.tokensJson]

NextTransform == TransformCall

SpecTransform == InitTransform /\ [][NextTransform]_vars

---------------------------------------------------------------------------
(* Properties of the webhook receiver.  They are stated over the request   *)
(* as it was sent (req), the configuration (env) and what was observed:    *)
(* the reply (res), the dispatch POSTs (outbound) and the forge's answers. *)

Handled == pc # "idle"

IsPost == req.method = "POST"

SecretConfigured == ~Falsy(env.FIGMA_WEBHOOK_SECRET)

\* the request carries the type FILE_UPDATE
SentFileUpdate ==
  /\ RequestBody(req.rawBody).t = "object"
  /\ Prop(RequestBody(req.rawBody), "event_type") = Str(<<"FILE_UPDATE">>)

\* the signature is the HMAC of the body as it was sent
SignedAsSent ==
  /\ SecretConfigured
  /\ req.signature = HmacSha256Hex(req.rawBody, env.FIGMA_WEBHOOK_SECRET.s)

\* the signature is the HMAC the receiver recomputes: that of the
\* re-serialised parsed body; none is recomputed for a body that is missing
\* or does not parse
MatchesRecomputed ==
  /\ RequestBody(req.rawBody).t \notin {"undefined", "SyntaxError"}
  /\ req.signature =
       HmacSha256Hex(StringifyText(RequestBody(req.rawBody)),
                     env.FIGMA_WEBHOOK_SECRET.s)

\* the request got past the signature step
PassedSignature ==
  /\ RequestBody(req.rawBody).t # "SyntaxError"
  /\ SecretConfigured => MatchesRecomputed

ForgeConfigured ==
  ~Falsy(env.GITHUB_TOKEN) /\ ~Falsy(env.GITHUB_REPOSITORY)

Answered(status) == res.sent /\ res.status = status

TriggeredReply ==
  Reply(200, [message |-> <<"Webhook processed successfully">>, triggered |-> TRUE])

GenericErrorReply == Reply(500, [error |-> <<"Internal server error">>])

\* C1 (as claimed): a POST of a FILE_UPDATE event whose signature is correct
\* for the configured secret, with the forge configured and answering 2xx to
\* what it is sent, gets exactly one dispatch POST and, once that POST has
\* been answered, the reply 200 {triggered: true}.
C1_SignedFileUpdateTriggersOnce ==
  (/\ pc = "done"
   /\ IsPost
   /\ SentFileUpdate
   /\ SignedAsSent
   /\ ForgeConfigured
   /\ \A i \in 1..Len(answers) : ResponseOk(answers[i]))
  => (/\ Len(outbound) = 1
      /\ Len(answers) = 1
      /\ res = TriggeredReply)

\* C2 (as claimed): a POST that passes the signature step and whose event
\* type is not FILE_UPDATE (or absent) issues no dispatch POST and is
\* answered 200 "Event ignored" with the event type echoed and no triggered
\* flag.
C2_Original ==
  (/\ Handled
   /\ IsPost
   /\ PassedSignature
   /\ Prop(RequestBody(req.rawBody), "event_type") # Str(<<"FILE_UPDATE">>))
  => (/\ pc = "done"
      /\ outbound = <<>>
      /\ res = Reply(200, [message |-> <<"Event ignored">>,
                           event_type |-> Prop(RequestBody(req.rawBody),
                                               "event_type")]))

\* C2 (amended): the same for a POST whose body is present and is not the
\* JSON value null.
C2_OtherEventsIgnored ==
  (/\ Handled
   /\ IsPost
   /\ PassedSignature
   /\ RequestBody(req.rawBody).t \notin {"undefined", "null"}
   /\ Prop(RequestBody(req.rawBody), "event_type") # Str(<<"FILE_UPDATE">>))
  => (/\ pc = "done"
      /\ outbound = <<>>
      /\ res = Reply(200, [message |-> <<"Event ignored">>,
                           event_type |-> Prop(RequestBody(req.rawBody),
                                               "event_type")]))

C2_Witness ==
  /\ pc = "done"
  /\ IsPost
  /\ SecretConfigured
  /\ Prop(RequestBody(req.rawBody), "event_type") = Str(<<"PING">>)
  /\ Answered(200)
  /\ res.body.message = <<"Event ignored">>

\* C3 (as claimed): a POST is answered 401 exactly when a secret is
\* configured and the supplied signature (a missing header included) is not
\* the recomputed HMAC; a request answered 401 issues no dispatch POST; with
\* no secret configured no request is answered 401.
C3_Original ==
  (Handled /\ IsPost)
  => (/\ Answered(401) <=> (SecretConfigured /\ ~MatchesRecomputed)
      /\ Answered(401) => outbound = <<>>
      /\ ~SecretConfigured => ~Answered(401))

\* where line 23 yields a text to hash (the body is present and parses), the
\* statement of C3 holds
C3_ParsedBodies ==
  (Handled /\ IsPost /\ RequestBody(req.rawBody).t \notin {"undefined", "SyntaxError"})
  => (/\ Answered(401) <=> (SecretConfigured /\ ~MatchesRecomputed)
      /\ Answered(401) => outbound = <<>>
      /\ ~SecretConfigured => ~Answered(401))

\* C4 (as claimed): a POST that carries the HMAC of its raw body, as it was
\* received, under the configured secret is never answered 401.
C4_RawBodySignatureAccepted ==
  (Handled /\ IsPost /\ SignedAsSent) => ~Answered(401)

\* C5: OPTIONS is answered 200 {message: "OK"}, any method other than POST
\* and OPTIONS is answered 405; in both cases at once, with the body not
\* read, no signature check and no dispatch POST.
C5_MethodGate ==
  (Handled /\ ~IsPost)
  => (/\ pc = "done"
      /\ res = IF req.method = "OPTIONS"
               THEN Reply(200, [message |-> <<"OK">>])
               ELSE Reply(405, [error |-> <<"Method not allowed">>])
      /\ ~bodyRead
      /\ ~sigChecked
      /\ outbound = <<>>)

C5_Witness ==
  /\ req.method = "OPTIONS"
  /\ SecretConfigured
  /\ req.rawBody # <<>>
  /\ req.signature = Str(<<"deadbeef">>)
  /\ Answered(200)

\* C6: an accepted FILE_UPDATE event with the forge token or the owner/repo
\* identifier absent issues no dispatch POST and is not answered
\* triggered: true (the forwarder raises first, and the reply, once handler
\* has resumed, is the generic 500).
C6_MissingForgeConfig ==
  (/\ Handled
   /\ IsPost
   /\ PassedSignature
   /\ SentFileUpdate
   /\ ~ForgeConfigured)
  => (/\ outbound = <<>>
      /\ pc \in {"awaitTrigger", "done"}
      /\ res # TriggeredReply
      /\ pc = "done" => res = GenericErrorReply)

C6_Witness ==
  /\ IsPost
  /\ PassedSignature
  /\ SentFileUpdate
  /\ ~Falsy(env.GITHUB_TOKEN)
  /\ env.GITHUB_REPOSITORY = Undefined
  /\ pc = "done"
  /\ outbound = <<>>
  /\ Answered(500)

\* processing of the request raised: the catch block logged the error
Raised ==
  \E i \in 1..Len(log) : log[i].text = <<"Webhook processing error:">>

\* C7: whenever processing of a POST raises (a non-2xx or missing answer to
\* the dispatch POST, missing forge configuration, a missing, null or
\* unparseable body) the reply, sent when handler has run its catch block,
\* is exactly 500 {error: "Internal server error"}, and the dispatch POST is
\* not sent a second time.
C7_GenericError ==
  /\ (IsPost /\ Raised) => res = GenericErrorReply
  /\ (\E i \in 1..Len(answers) : ~ResponseOk(answers[i]))
       => (/\ pc \in {"awaitText", "awaitTrigger", "done"}
           /\ pc = "done" => Raised
           /\ Len(outbound) = 1
           /\ Len(answers) = 1)
  /\ (pc = "done" /\ IsPost /\ PassedSignature /\ SentFileUpdate
        /\ ~ForgeConfigured) => Raised
  /\ (Handled /\ IsPost /\ RequestBody(req.rawBody).t = "SyntaxError") => Raised
  /\ (Handled /\ IsPost /\ PassedSignature
        /\ RequestBody(req.rawBody).t \in {"undefined", "null"}) => Raised
  /\ Len(outbound) <= 1

C7_Witness ==
  /\ IsPost
  /\ Len(answers) = 1
  /\ answers[1].status = 404
  /\ Len(outbound) = 1
  /\ res = GenericErrorReply

\* C8: verifyFigmaWebhook(B1, hmac_sha256(B2, S), S) is true exactly when
\* B1 = B2, and the call changes nothing else.
C8_VerifyRoundTrip ==
  vOut.called
  => (/\ \A b \in VerifyBodies :
           vIn.signature = HmacSha256Hex(b, vIn.secret.s)
             => (vOut.result <=> b = vIn.payload.s)
      /\ WebhookIdle)

C8_Witness ==
  /\ vOut.called
  /\ vOut.result = TRUE
  /\ vIn.secret.s # <<>>
  /\ vIn.payload.s # <<>>

---------------------------------------------------------------------------
(* Properties of the sync script.  A run is described by runInfo (what the *)
(* two fetches met), startFiles (the working tree the run found) and files *)
(* (the working tree now).                                                 *)

TokenFetchRefused == spc # "idle" /\ runInfo.tokenFetch = "http"

\* fetchScreenshots has returned
ScreenshotFetcherDone == spc \in {"docs", "updating", "exited"}

ScreenshotFetchSucceeded == ScreenshotFetcherDone /\ runInfo.shotFetch = "ok"

TokenFilesUntouched ==
  /\ files.tokensJson = startFiles.tokensJson
  /\ files.colors = startFiles.colors
  /\ files.spacing = startFiles.spacing
  /\ files.typography = startFiles.typography

\* every image the endpoint rendered is on disk under its file name
RenderedWritten ==
  \A i \in 1..Len(runInfo.rendered) :
    runInfo.rendered[i][2] # Null =>
      [name |-> Filename(runInfo.rendered[i][1]), data |-> runInfo.rendered[i][2]]
        \in files.images

\* C9: in a run whose token fetch met a non-success HTTP response, the run
\* goes on to the Screenshot Fetcher and the Documentation Updater and never
\* exits non-zero, the token document and the three token fragments stay as
\* the run found them, and when the screenshot fetch succeeds the screenshots
\* are on disk and the run ends with exit code 0.
C9_TokenFailureKeepsTokenFiles ==
  TokenFetchRefused =>
    /\ exitCode # 1
    /\ spc \in {"shots", "download", "docs", "updating", "exited"}
    /\ ScreenshotFetcherDone => runInfo.shotFetch # "none"
    /\ spc = "exited" => runInfo.updaterRan /\ exitCode = 0
    /\ TokenFilesUntouched
    /\ ScreenshotFetchSucceeded => RenderedWritten

C9_Witness ==
  /\ TokenFetchRefused
  /\ ScreenshotFetchSucceeded
  /\ spc = "exited"
  /\ exitCode = 0
  /\ shotsRet # <<>>
  /\ files.images # startFiles.images
  /\ runs = 2
  /\ startFiles.tokensJson # Missing
  /\ startFiles.colors.title = "Colors"

StripItem(b) ==
  IF b.k = "note" THEN Note(0)
  ELSE IF b.k = "lastsync" /\ b.stamped THEN LastSync(0)
  ELSE b

\* a file without the timestamps embedded in it
StripStamps(f) ==
  IF f = Missing THEN f
  ELSE IF "items" \in DOMAIN f
  THEN Mdx([i \in 1..Len(f.items) |-> StripItem(f.items[i])])
  ELSE [f EXCEPT !.synced = 0]

OutputsAlike(a, b) ==
  /\ StripStamps(a.intro) = StripStamps(b.intro)
  /\ StripStamps(a.colors) = StripStamps(b.colors)
  /\ StripStamps(a.spacing) = StripStamps(b.spacing)
  /\ StripStamps(a.typography) = StripStamps(b.typography)
  /\ \A c \in DOMAIN a.pages : StripStamps(a.pages[c]) = StripStamps(b.pages[c])

\* C10: after the Documentation Updater has run a second time with the same
\* token document and the same screenshot records, every output file is what
\* it was after the first run, timestamps apart.
C10_UpdaterIdempotent ==
  (uCalls >= 2 /\ upc = "idle") => OutputsAlike(files, uPrev)

FragmentsRendered(fs, tokens) ==
  /\ fs.colors # Missing /\ fs.colors.title = "Colors"
  /\ fs.colors.entries = TokenEntries(tokens.colors, TRUE)
  /\ fs.spacing # Missing /\ fs.spacing.title = "Spacing"
  /\ fs.typography # Missing /\ fs.typography.title = "Typography"

HasNote(page) ==
  page # Missing /\ \E i \in 1..Len(page.items) : page.items[i].k = "note"

HasSection(page) ==
  page # Missing /\ \E i \in 1..Len(page.items) : StartsSection(page.items[i])

\* C11: after a call of the Documentation Updater, whatever happened to the
\* introduction page, the token fragments are rendered when a token document
\* was passed, and the screenshots section of the alerts page is rewritten
\* when alert screenshots were passed and the page has such a section.
C11_RewritesIndependent ==
  (uCalls >= 1 /\ upc = "idle") =>
    /\ uTokens # Null => FragmentsRendered(files, uTokens)
    /\ (SelectSeq(uShots, IsAlert) # <<>> /\ HasSection(uPrev.pages["alerts"]))
         => HasNote(files.pages["alerts"])

NodeListEmpty == senv.FIGMA_NODE_IDS \in {Undefined, Str(<<>>)}

\* C12: when FIGMA_NODE_IDS is unset or the empty string, the Screenshot
\* Fetcher issues no request to the images endpoint, writes no image file and
\* returns the empty list.
C12_EmptyNodeListNoOp ==
  (ScreenshotFetcherDone /\ NodeListEmpty) =>
    /\ ~runInfo.imageRequested
    /\ files.images = startFiles.images
    /\ shotsRet = <<>>

---------------------------------------------------------------------------
(* Properties of transformVariablesToTokens, over the argument tIn and the *)
(* returned token document tOut.tokens.                                    *)

ReturnedCollections ==
  IF tIn.meta.t = "undefined" THEN <<>>
  ELSE IF tIn.meta.variableCollections.t = "undefined" THEN <<>>
  ELSE tIn.meta.variableCollections.values

ReturnedVariables ==
  IF tIn.meta.t = "undefined" THEN <<>>
  ELSE IF tIn.meta.variables.t = "undefined" THEN <<>>
  ELSE tIn.meta.variables.values

\* (collection, variable) for every variable of a returned collection
Members ==
  {[c |-> ReturnedCollections[i], v |-> ReturnedVariables[j]] :
     <<i, j>> \in {x \in (1..Len(ReturnedCollections)) \X (1..Len(ReturnedVariables)) :
                    ReturnedVariables[x[2]].variableCollectionId
                      = ReturnedCollections[x[1]].id}}

Categories == {"colors", "spacing", "typography"}

NameHas(x, word) == Includes(ToLowerCase(x.name), word)

MatchesColors(m) == NameHas(m.v, Color) \/ NameHas(m.c, Color)

MatchesSpacing(m) == NameHas(m.v, Spacing) \/ NameHas(m.c, Spacing)

\* the variable's name or its collection's name contains "font" or "typography"
MatchesTypography(m) ==
  \/ NameHas(m.v, Font) \/ NameHas(m.v, Typography)
  \/ NameHas(m.c, Font) \/ NameHas(m.c, Typography)

FirstMatch(m) ==
  IF MatchesColors(m) THEN "colors"
  ELSE IF MatchesSpacing(m) THEN "spacing"
  ELSE IF MatchesTypography(m) THEN "typography"
  ELSE "none"

DefaultModeValue(m) == ValueByMode(m.v.valuesByMode, m.c.defaultModeId)

ExpectedValue(cat, m) ==
  IF cat = "spacing" THEN Str(Template(DefaultModeValue(m)) \o <<"p", "x">>)
  ELSE DefaultModeValue(m)

\* C13: in the returned document, every variable of a returned collection has
\* an entry under the first category it matches (colors, then spacing, then
\* typography), and every entry of a category is the entry of such a variable
\* (so a variable is in no other category and an unmatched one in none); the
\* value of a spacing entry is the default-mode value followed by px, that
\* of a colors or typography entry the default-mode value itself.
C13_FirstMatchPlacement ==
  tOut.called =>
    \A cat \in Categories :
      /\ \A m \in Members :
           FirstMatch(m) = cat => HasKey(tOut.tokens[cat], m.v.name)
      /\ \A k \in 1..Len(tOut.tokens[cat]) :
           \E m \in Members :
             /\ FirstMatch(m) = cat
             /\ m.v.name = tOut.tokens[cat][k][1]
             /\ tOut.tokens[cat][k][2].value = ExpectedValue(cat, m)

\* C14: a variable that matches neither the color nor the spacing test and
\* whose name or whose collection's name contains "font" or "typography" has
\* an entry under typography.
C14_TypographyFourWays ==
  tOut.called =>
    \A m \in Members :
      (~MatchesColors(m) /\ ~MatchesSpacing(m) /\ MatchesTypography(m))
        => HasKey(tOut.tokens.typography, m.v.name)

EmptyTokens == [colors |-> <<>>, typography |-> <<>>, spacing |-> <<>>, lastSync |-> 0]

\* the entries the transform makes for one variable, taken alone
OwnEntries(m) == Classify(EmptyTokens, m.c, m.v)

\* C19: every variable the transform classified has, in the returned
\* document, its own entry (its name, its own value and type) in its category.
C19_NoVariableLost ==
  tOut.called =>
    \A m \in Members : \A cat \in Categories :
      OwnEntries(m)[cat] # <<>> =>
        \E k \in 1..Len(tOut.tokens[cat]) :
          tOut.tokens[cat][k] = OwnEntries(m)[cat][1]

---------------------------------------------------------------------------
(* Properties of the token document across sync runs.                      *)

\* C15 as stated: the token document on disk is the full transform of the
\* latest variables fetch that got a success response (the document the
\* first run found, as long as there was none).
C15_Original == files.tokensJson = lastFetch.fetched

\* C15: the token document on disk is the full transform of the latest
\* variables fetch that got a success response and whose document could be
\* written; such a fetch replaces the whole document, any other fetch and
\* every other step of a run leave it unchanged.
C15_DocumentIsLatestWrittenFetch == files.tokensJson = lastFetch.written

C15_Witness ==
  /\ runs = 2
  /\ spc = "exited"
  /\ runInfo.tokenFetch = "http"
  /\ startFiles.tokensJson # Missing
  /\ startFiles.tokensJson.doc.lastSync = 1
  /\ startFiles.tokensJson.doc.colors # <<>>
  /\ startFiles.tokensJson.doc.colors # OldTokens.colors
  /\ files.tokensJson = startFiles.tokensJson

TokenWriteFailed == runInfo.fault = "tokens.write" /\ runInfo.tokenFetch = "ok"

\* the download loop threw: the images endpoint had answered with images
ImageWriteFailed == runInfo.shotFetch = "failed" /\ runInfo.rendered # <<>>

IntroWriteFailed ==
  runInfo.fault = "intro.write" /\ runInfo.updaterRan /\ files.intro # Missing

FragmentWriteFailed ==
  /\ runInfo.fault \in {"colors.write", "spacing.write", "typography.write"}
  /\ runInfo.updaterRan
  /\ files.intro # Missing
  /\ tokensRet # Null

\* C16: a run in which the write of the token document, of an image file, of
\* the introduction page or of a token fragment failed ends with a non-zero
\* exit code.
C16_WriteFailureExitsNonZero ==
  (spc = "exited"
     /\ (TokenWriteFailed \/ ImageWriteFailed \/ IntroWriteFailed
           \/ FragmentWriteFailed))
    => exitCode = 1

---------------------------------------------------------------------------
(* Properties of the Screenshot Fetcher.                                   *)

HasUrl(entry) == entry[2] # Null

\* the (node id, URL) pairs of the answer whose URL is not null
RenderedWithUrl == SelectSeq(runInfo.rendered, HasUrl)

Hyphenated(id) == [i \in 1..Len(id) |-> IF id[i] = ":" THEN "-" ELSE id[i]]

FigmaPng(id) == <<"f", "i", "g", "m", "a", "-">> \o Hyphenated(id) \o <<".", "p", "n", "g">>

\* C17: when the images request and every download succeeded, the returned
\* list has one record per answered pair with a URL, in the order of the
\* answer, and none for a pair with a null URL; the record's filename is
\* figma-<id>.png with the colons of the id replaced by hyphens, and the
\* image is on disk under that name.
C17_OneRecordPerRenderedNode ==
  (ScreenshotFetcherDone /\ runInfo.shotFetch = "ok") =>
    /\ Len(shotsRet) = Len(RenderedWithUrl)
    /\ \A i \in 1..Len(shotsRet) :
         /\ shotsRet[i].nodeId = RenderedWithUrl[i][1]
         /\ shotsRet[i].safeNodeId = Hyphenated(RenderedWithUrl[i][1])
         /\ shotsRet[i].filename = FigmaPng(RenderedWithUrl[i][1])
         /\ [name |-> FigmaPng(RenderedWithUrl[i][1]), data |-> RenderedWithUrl[i][2]]
              \in files.images

C17_Witness ==
  /\ ScreenshotFetcherDone
  /\ runInfo.shotFetch = "ok"
  /\ Len(runInfo.rendered) = 2
  /\ Len(shotsRet) = 2
  /\ shotsRet[1].filename
       = <<"f", "i", "g", "m", "a", "-", "1", "2", "-", "3", "4", ".", "p", "n", "g">>
  /\ \E f \in files.images : f.name = shotsRet[1].filename

\* a pair with a null URL was answered and has no record
C17_WitnessNullUrl ==
  /\ ScreenshotFetcherDone
  /\ runInfo.shotFetch = "ok"
  /\ Len(runInfo.rendered) = 2
  /\ Len(shotsRet) = 1

\* the image files this run wrote (new ones, or old ones with new content)
ImagesWrittenThisRun == files.images \ startFiles.images

\* C18: once the Screenshot Fetcher of a run has returned, every image file
\* the run wrote has a record in the returned list.
C18_WrittenImagesAreReturned ==
  ScreenshotFetcherDone =>
    \A f \in ImagesWrittenThisRun :
      \E i \in 1..Len(shotsRet) : shotsRet[i].filename = f.name

---------------------------------------------------------------------------
(* Properties of the introduction page across sync runs.                   *)

NoPlaceholder(page) ==
  page # Missing /\ \A i \in 1..Len(page.items) : page.items[i] # LastSyncPlaceholder

\* this step is the Documentation Updater reading and writing the
\* introduction page
IntroRewritten ==
  /\ upc = "intro"
  /\ upc' # "intro"
  /\ files.intro # Missing
  /\ runInfo.fault # "intro.write"

\* C20: a run that rewrites the introduction page leaves no occurrence of the
\* last-sync placeholder in it, and from then on no step of any run changes
\* the page: it keeps the timestamp of the run that replaced the placeholder.
C20_IntroStampedOnce ==
  [][/\ IntroRewritten => NoPlaceholder(files'.intro)
     /\ NoPlaceholder(files.intro) => files'.intro = files.intro]_vars

C20_Witness ==
  /\ runs = 2
  /\ spc = "exited"
  /\ runInfo.updaterRan
  /\ runInfo.fault = "none"
  /\ NoPlaceholder(startFiles.intro)
  /\ files.intro = startFiles.intro
  /\ \E i \in 1..Len(files.intro.items) :
       /\ files.intro.items[i].k = "lastsync"
       /\ files.intro.items[i].stamped
       /\ files.intro.items[i].at = 2
  /\ files.colors.synced > 2
  /\ clock > 5

====
